---------------------------- MODULE Spec2Model ----------------------------
(***************************************************************************)
(* Model of the numerical engine of src/app.py (kepler_to_cartesian,       *)
(* _solve_keplers_equation, compute_impact_effects) and of the             *)
(* /api/simulate handler that composes them.                               *)
(*                                                                         *)
(* float64 values are modelled as fixed-point integers:                    *)
(*   - angles (radians), eccentricity, trigonometric values and the        *)
(*     impactor quantities are held in units of 1/SCALE;                   *)
(*   - lengths of the orbit are held in units of 10^6 km;                  *)
(*   - the mean motion n is held in units of 10^-8 rad/s, so that          *)
(*     n^2 = mu / a_km^3 with mu rescaled accordingly;                     *)
(*   - elapsed time t is held in whole seconds.                            *)
(* Every float operation rounds to the nearest representable value         *)
(* (RDiv), as IEEE arithmetic does.  Python exceptions are modelled as     *)
(* the outcome pc = "raised" with the exception's name in err.             *)
(***************************************************************************)
EXTENDS Integers, Sequences, FiniteSets, TLC

VARIABLES
    pc,         \* position of the engine: idle, loop, solve, place, returned, raised
    op,         \* the running / last function: none, propagate, estimate
    args,       \* the arguments of the running / last call
    n,          \* kepler_to_cartesian: mean motion
    j,          \* kepler_to_cartesian: loop index
    positions,  \* kepler_to_cartesian: the list being built
    t,          \* kepler_to_cartesian: elapsed time of the sample
    times,      \* ghost: elapsed time t of each appended position
    M_t,        \* kepler_to_cartesian: normalised mean anomaly of the sample
    E,          \* _solve_keplers_equation: eccentric anomaly
    k,          \* _solve_keplers_equation: number of Newton updates done
    delta,      \* _solve_keplers_equation: last Newton update
    result,     \* the value returned by the last call
    err,        \* the exception raised by the last call
    prev,       \* ghost: one earlier completed call, with its outcome
    hpc,        \* api_simulate: position of the handler
    req,        \* api_simulate: the request being served
    orbit_data, \* api_simulate: the orbital elements obtained, or None
    hpos,       \* api_simulate: the local "positions"
    calls,      \* ghost: invocations made while serving the request
    resp,       \* api_simulate: the response returned
    bpc,        \* browse_catalog: position: idle, fetch, prompt, returned, raised
    page,       \* browse_catalog: the page index
    neos,       \* browse_catalog: the entries of the page fetched last
    screen,     \* browse_catalog: the catalog page printed last
    cmd,        \* browse_catalog: the command read last, stripped and lowered
    selected,   \* browse_catalog: the value returned
    berr        \* browse_catalog: the exception raised

engine == <<pc, op, args, n, j, positions, t, times, M_t, E, k, delta, result, err>>

handler == <<hpc, req, orbit_data, hpos, calls, resp>>

browser == <<bpc, page, neos, screen, cmd, selected, berr>>

vars == <<engine, prev, handler, browser>>

----------------------------------------------------------------------------
(* Fixed-point arithmetic standing for float64.                            *)

\* Resolution of the fixed-point values: 1/SCALE.
SCALE == 100

Abs(x) == IF x < 0 THEN -x ELSE x

Sign(x) == IF x < 0 THEN -1 ELSE 1

\* a / b rounded to the nearest integer (b # 0).
RDiv(a, b) == Sign(a) * Sign(b) * ((Abs(a) + Abs(b) \div 2) \div Abs(b))

\* Product of two fixed-point values.
FMul(x, y) == RDiv(x * y, SCALE)

RECURSIVE IsqrtBetween(_, _, _)
IsqrtBetween(x, lo, hi) ==
    IF hi - lo <= 1 THEN lo
    ELSE LET mid == (lo + hi) \div 2
         IN IF mid * mid <= x THEN IsqrtBetween(x, mid, hi)
            ELSE IsqrtBetween(x, lo, mid)

\* floor(sqrt(x)) for 0 <= x < 46340^2.
Isqrt(x) == IsqrtBetween(x, 0, 46340)

\* sqrt(x) rounded to the nearest integer (x >= 0).
SqrtNearest(x) == LET r == Isqrt(x) IN IF x - r * r > r THEN r + 1 ELSE r

\* math.sqrt on a fixed-point value x >= 0: sqrt(x/SCALE) * SCALE.
FSqrt(x) == SqrtNearest(x * SCALE)

\* math.pi
PI == 314

TWO_PI == 2 * PI

\* math.radians(deg)
Radians(deg) == RDiv(deg * PI, 180)

\* math.fmod(x, m), m > 0: the remainder truncates toward zero and takes the
\* sign of x.
Fmod(x, m) == IF x >= 0 THEN x % m ELSE -((-x) % m)

\* sin on [0, pi] (Bhaskara's rational approximation, exact at 0, pi/2, pi).
SinHalfTurn(x) ==
    LET p == x * (PI - x)
    IN RDiv(16 * p * SCALE, 5 * PI * PI - 4 * p)

\* math.sin
Sin(x) ==
    LET y == x % TWO_PI
    IN IF y <= PI THEN SinHalfTurn(y) ELSE -SinHalfTurn(y - PI)

\* math.cos
Cos(x) == Sin(x + PI \div 2)

\* atan on [0, 1] (fixed-point z): z * (pi/4 + 0.273 * (1 - z)).
AtanUnit(z) == RDiv(z * (RDiv(PI, 4) + RDiv(27 * (SCALE - z), SCALE)), SCALE)

\* atan2 for x >= 0, y >= 0, not both 0.
AtanQuadrant(y, x) ==
    IF y <= x THEN AtanUnit(RDiv(y * SCALE, x))
    ELSE PI \div 2 - AtanUnit(RDiv(x * SCALE, y))

\* math.atan2(y, x)
Atan2(y, x) ==
    IF x = 0 /\ y = 0 THEN 0
    ELSE LET q == AtanQuadrant(Abs(y), Abs(x))
         IN IF x >= 0 THEN Sign(y) * q ELSE Sign(y) * (PI - q)

----------------------------------------------------------------------------
(* Program constants, in the units of the model.                           *)

\* mu = 1.32712440018e11 km^3/s^2, in (10^6 km)^3 / (10^8 s)^2.
MU == 1327124400

\* 1 AU = 1.496e8 km, in 10^6 km.
AU_KM == 150

\* n * t (10^-8 rad) per fixed-point angle unit (10^-2 rad).
ANGLE_PER_NT == 1000000

\* Seconds per day: 24 * 3600.
DAY_S == 24 * 3600

\* tol of _solve_keplers_equation: the smallest positive fixed-point value,
\* so that abs(delta) < TOL is "delta is below the resolution".
TOL == 1

\* range(50) of _solve_keplers_equation.
MAX_ITER == 50

NoArgs == [fn |-> "none"]

NoResult == [kind |-> "none"]

\* An exception, with the source line that raises it.
Raised(exc, line) == [exc |-> exc, line |-> line]

NoErr == Raised("none", 0)

----------------------------------------------------------------------------
(* kepler_to_cartesian                                                     *)

\* a_km = a * 1.496e8
A_km(a) == RDiv(a * AU_KM, SCALE)

\* The outcome of n = math.sqrt(mu / (a_km**3)): the value or the exception.
MeanMotion(a) ==
    LET a3 == A_km(a) * A_km(a) * A_km(a)
    IN IF a3 = 0 THEN [exc |-> "ZeroDivisionError", val |-> 0]
       ELSE IF a3 < 0 THEN [exc |-> "ValueError", val |-> 0]
       ELSE [exc |-> "none", val |-> SqrtNearest(RDiv(MU, a3))]

\* dt_total = timespan_days * 24 * 3600
DtTotal(timespan_days) == timespan_days * DAY_S

\* The schedule with the last sample one interval short of the time span.
ElapsedTimeOverSteps(jj, steps, dt_total) == RDiv(jj * dt_total, steps)

\* t = (j / (steps - 1)) * dt_total, for steps # 1
ElapsedTime(jj, steps, dt_total) == RDiv(jj * dt_total, steps - 1)

\* M_t = math.fmod(M0 + n * t, 2 * math.pi)
MeanAnomaly(M_deg, nn, tt) ==
    Fmod(Radians(M_deg) + RDiv(nn * tt, ANGLE_PER_NT), TWO_PI)

\* The list shared between calls: it still holds the samples of an earlier one.
InitialPositionsShared ==
    IF prev.op = "propagate" /\ prev.pc = "returned" THEN prev.result.val ELSE << >>

\* positions: List[Dict[str, float]] = []
InitialPositions == << >>

\* The solver started from E = 0.
InitialGuessZero(M) == 0

\* E = M: the initial guess of _solve_keplers_equation
InitialGuess(M) == M

\* Lines 104-117: the conversions, the mean motion and the empty list.
StartPropagate(a) ==
    LET mm == MeanMotion(a.a)
    IN /\ op' = "propagate"
       /\ args' = a
       /\ positions' = InitialPositions
       /\ times' = << >>
       /\ t' = 0
       /\ j' = 0
       /\ M_t' = 0
       /\ E' = 0
       /\ k' = 0
       /\ delta' = 0
       /\ result' = NoResult
       /\ IF mm.exc = "none"
          THEN n' = mm.val /\ pc' = "loop" /\ err' = NoErr
          ELSE n' = 0 /\ pc' = "raised" /\ err' = Raised(mm.exc, 114)

\* for j in range(steps): the head of the loop, lines 119-128 up to the call
\* of the solver (E = M is the solver's initial guess, line 178), and
\* "return positions" once the range is exhausted.
LoopStep ==
    /\ pc = "loop"
    /\ IF j >= args.steps
       THEN /\ pc' = "returned"
            /\ result' = [kind |-> "positions", val |-> positions]
            /\ UNCHANGED <<op, args, n, j, positions, t, times, M_t, E, k, delta, err>>
       ELSE IF args.steps - 1 = 0
       THEN /\ pc' = "raised"
            /\ err' = Raised("ZeroDivisionError", 121)
            /\ UNCHANGED <<op, args, n, j, positions, t, times, M_t, E, k, delta, result>>
       ELSE LET tt == ElapsedTime(j, args.steps, DtTotal(args.timespan_days))
                m == MeanAnomaly(args.M_deg, n, tt)
            IN /\ t' = tt
               /\ M_t' = m
               /\ E' = InitialGuess(m)
               /\ k' = 0
               /\ delta' = 0
               /\ pc' = "solve"
               /\ UNCHANGED <<op, args, n, j, positions, times, result, err>>

----------------------------------------------------------------------------
(* _solve_keplers_equation                                                 *)

\* f = E - e * math.sin(E) - M
KeplerF(e, EE, M) == EE - FMul(e, Sin(EE)) - M

\* f_prime = 1 - e * math.cos(E)
KeplerFPrime(e, EE) == SCALE - FMul(e, Cos(EE))

\* delta = -f / f_prime, for f_prime # 0
NewtonDelta(e, EE, M) == RDiv((-KeplerF(e, EE, M)) * SCALE, KeplerFPrime(e, EE))

\* if abs(delta) < tol: break
Converged(d) == Abs(d) < TOL

\* The loop without its bound on the number of passes.
SolverContinuesUncapped(d, kk) == ~Converged(d)

\* The loop goes on to another pass: no break, and the range not exhausted.
SolverContinues(d, kk) == ~Converged(d) /\ kk < MAX_ITER

\* One pass of the body of "for _ in range(50)", lines 180-185.
NewtonStep ==
    /\ pc = "solve"
    /\ k < MAX_ITER
    /\ IF KeplerFPrime(args.e, E) = 0
       THEN /\ pc' = "raised"
            /\ err' = Raised("ZeroDivisionError", 182)
            /\ UNCHANGED <<op, args, n, j, positions, t, times, M_t, E, k, delta, result>>
       ELSE LET d == NewtonDelta(args.e, E, M_t)
            IN /\ delta' = d
               /\ E' = E + d
               /\ k' = k + 1
               /\ pc' = IF SolverContinues(d, k + 1) THEN "solve" ELSE "place"
               /\ UNCHANGED <<op, args, n, j, positions, t, times, M_t, result, err>>

----------------------------------------------------------------------------
(* kepler_to_cartesian, lines 129-157: from E to the appended position     *)

\* nu = 2 * atan2(sqrt(1 + e) * sin(E / 2), sqrt(1 - e) * cos(E / 2)),
\* for -1 <= e <= 1
TrueAnomaly(e, EE) ==
    2 * Atan2(FMul(FSqrt(SCALE + e), Sin(RDiv(EE, 2))),
              FMul(FSqrt(SCALE - e), Cos(RDiv(EE, 2))))

\* r = a_km * (1 - e * cos(E))
Radius(a, e, EE) == FMul(A_km(a), SCALE - FMul(e, Cos(EE)))

\* Lines 135-157: the position in the orbital plane, rotated by the argument
\* of periapsis, the inclination and the longitude of the ascending node.
Position(a, EE) ==
    LET nu == TrueAnomaly(a.e, EE)
        r == Radius(a.a, a.e, EE)
        i == Radians(a.i_deg)
        omega == Radians(a.omega_deg)
        w == Radians(a.w_deg)
        x_op == FMul(r, Cos(nu))
        y_op == FMul(r, Sin(nu))
        z_op == 0
        x1 == FMul(Cos(w), x_op) - FMul(Sin(w), y_op)
        y1 == FMul(Sin(w), x_op) + FMul(Cos(w), y_op)
        z1 == z_op
        x2 == x1
        y2 == FMul(Cos(i), y1) - FMul(Sin(i), z1)
        z2 == FMul(Sin(i), y1) + FMul(Cos(i), z1)
    IN [x |-> FMul(Cos(omega), x2) - FMul(Sin(omega), y2),
        y |-> FMul(Sin(omega), x2) + FMul(Cos(omega), y2),
        z |-> z2]

\* The rest of the loop body once the solver has returned E.  math.sqrt
\* raises ValueError on a negative argument (e < -1 or e > 1).
Place ==
    /\ pc = "place"
    /\ IF SCALE + args.e < 0 \/ SCALE - args.e < 0
       THEN /\ pc' = "raised"
            /\ err' = Raised("ValueError", IF SCALE + args.e < 0 THEN 130 ELSE 131)
            /\ UNCHANGED <<op, args, n, j, positions, t, times, M_t, E, k, delta, result>>
       ELSE /\ positions' = Append(positions, Position(args, E))
            /\ times' = Append(times, t)
            /\ j' = j + 1
            /\ pc' = "loop"
            /\ UNCHANGED <<op, args, n, t, M_t, E, k, delta, result, err>>

----------------------------------------------------------------------------
(* compute_impact_effects                                                  *)

\* 100 * log10(x / 10), for 10 <= x <= 100, from the table of log10(1..10).
Log10Table == <<0, 30, 48, 60, 70, 78, 85, 90, 95, 100>>

RECURSIVE Log10Int(_)
\* 100 * log10(x) for an integer x >= 1.
Log10Int(x) ==
    IF x >= 100 THEN SCALE + Log10Int(RDiv(x, 10))
    ELSE IF x < 10 THEN Log10Int(x * 10) - SCALE
    ELSE LET lo == x \div 10
             hi == IF lo = 10 THEN 10 ELSE lo + 1
         IN SCALE + Log10Table[lo]
            + RDiv((Log10Table[hi] - Log10Table[lo]) * (x % 10), 10)

\* math.log10 on a fixed-point value x > 0.
Log10(x) == Log10Int(x) - 2 * SCALE

\* kinetic_energy**0.25: a float for kinetic_energy >= 0; for a negative
\* base Python's ** returns a complex number.
Pow025(x) ==
    IF x < 0 THEN [complex |-> TRUE, val |-> 0]
    ELSE [complex |-> FALSE, val |-> FSqrt(FSqrt(x))]

\* mass = (4/3) * pi * (diameter_m / 2)**3 * density
Mass(diameter_m, density) ==
    LET radius == RDiv(diameter_m, 2)
        volume == FMul(FMul(RDiv(4 * SCALE, 3), PI), FMul(FMul(radius, radius), radius))
    IN FMul(volume, density)

\* v_vertical = velocity_m_per_s * math.sin(math.radians(impact_angle_deg))
VVertical(velocity_m_per_s, impact_angle_deg) ==
    FMul(velocity_m_per_s, Sin(Radians(impact_angle_deg)))

\* The energy with the velocity not squared.
KineticEnergyLinear(mass, v_vertical) == FMul(FMul(SCALE \div 2, mass), v_vertical)

\* kinetic_energy = 0.5 * mass * v_vertical**2
KineticEnergy(mass, v_vertical) ==
    FMul(FMul(SCALE \div 2, mass), FMul(v_vertical, v_vertical))

\* energy_mt = kinetic_energy / 4.184e9 / 1e6, held in units of 10^-17 Mt.
EnergyMt(ke) == RDiv(ke * 125, 523)

\* crater_diameter_km = crater_coeff * (kinetic_energy**0.25) / 1000.0
CraterDiameterKm(crater_coeff, ke) ==
    LET q == Pow025(ke)
    IN [complex |-> q.complex, val |-> RDiv(FMul(crater_coeff, q.val), 1000)]

\* The guard letting a zero energy through to log10.
HasSeismicEnergyOrZero(ke) == ke >= 0

\* if kinetic_energy > 0:
HasSeismicEnergy(ke) == ke > 0

\* magnitude = (math.log10(kinetic_energy) - 4.8) / 1.5
Magnitude(ke) == RDiv((Log10(ke) - 480) * 10, 15)

\* The whole of compute_impact_effects, lines 227-249.  math.log10 raises
\* ValueError on an argument that is not positive.
EstimateImpact(a) ==
    LET mass == Mass(a.diameter_m, a.density)
        ke == KineticEnergy(mass, VVertical(a.velocity_m_per_s, a.impact_angle_deg))
    IN /\ op' = "estimate"
       /\ args' = a
       /\ IF HasSeismicEnergy(ke) /\ ke <= 0
          THEN /\ pc' = "raised"
               /\ err' = Raised("ValueError", 241)
               /\ result' = NoResult
          ELSE /\ pc' = "returned"
               /\ err' = NoErr
               /\ result' =
                      [kind |-> "effects",
                       val |-> [kinetic_energy_joules |-> ke,
                                energy_megatons_tnt |-> EnergyMt(ke),
                                crater_diameter_km |-> CraterDiameterKm(a.crater_coeff, ke),
                                seismic_magnitude |->
                                    IF HasSeismicEnergy(ke) THEN Magnitude(ke) ELSE 0]]
       /\ UNCHANGED <<n, j, positions, t, times, M_t, E, k, delta>>

----------------------------------------------------------------------------
(* The callers' inputs.                                                    *)

\* Largest number of samples asked of kepler_to_cartesian.
MaxSteps == 3

\* Number of times the base velocity is doubled in the inputs.
MaxDoublings == 2

Orientations == {<<0, 0, 0>>, <<30, 40, 50>>}

PropArgsOver(As, Es, Os, Ms, Ss, Ts) ==
    {[fn |-> "kepler_to_cartesian", a |-> a, e |-> e, i_deg |-> o[1],
      omega_deg |-> o[2], w_deg |-> o[3], M_deg |-> m, steps |-> s,
      timespan_days |-> d] :
        a \in As, e \in Es, o \in Os, m \in Ms, s \in Ss, d \in Ts}

\* Semi-major axes -1, 0, 1, 1.5 AU; eccentricities -0.5 .. 1.5; epoch mean
\* anomalies in degrees; 0 .. MaxSteps samples; time spans in days.
PropArgs ==
    PropArgsOver({-100, 0, 100, 150}, {-50, 0, 50, 90, 100, 150}, Orientations,
                 {-90, 0, 200}, 0..MaxSteps, {0, 100, 365})

\* Velocities 0, 5, 10, 20 m/s, whose squares are exact in the fixed point,
\* and 7.55, 15.1 m/s, whose squares are rounded.
Velocities ==
    {0} \cup {500 * (2 ^ d) : d \in 0..MaxDoublings} \cup {755 * (2 ^ d) : d \in 0..1}

\* Diameters -2, 0, 2, 4 m; densities -3, 0, 3 kg/m^3; angles in degrees;
\* crater coefficients 0.01 (default) and 1000.
EstArgs ==
    {[fn |-> "compute_impact_effects", diameter_m |-> d, density |-> r,
      velocity_m_per_s |-> v, impact_angle_deg |-> g, crater_coeff |-> c] :
        d \in {-200, 0, 200, 400}, r \in {-300, 0, 300}, v \in Velocities,
        g \in {0, 30, 45, 90}, c \in {1, 100000}}

----------------------------------------------------------------------------
(* The engine called directly.  A call starts when no call is running;     *)
(* once it has returned or raised, its caller takes the outcome and the    *)
(* frame of the call is discarded.                                         *)

Free == pc = "idle"

Done == pc \in {"returned", "raised"}

NoPrev == [op |-> "none", between |-> FALSE]

EngineInit ==
    /\ pc = "idle"
    /\ op = "none"
    /\ args = NoArgs
    /\ n = 0
    /\ j = 0
    /\ positions = << >>
    /\ t = 0
    /\ times = << >>
    /\ M_t = 0
    /\ E = 0
    /\ k = 0
    /\ delta = 0
    /\ result = NoResult
    /\ err = NoErr

NoRequest == [json |-> "none"]

None == [kind |-> "None"]

NoCalls == [propagate |-> 0, estimate |-> 0, fetch |-> 0]

NoResponse == [status |-> 0]

HandlerInit ==
    /\ hpc = "idle"
    /\ req = NoRequest
    /\ orbit_data = None
    /\ hpos = << >>
    /\ calls = NoCalls
    /\ resp = NoResponse

----------------------------------------------------------------------------
(* browse_catalog of src/meteorMadness.py.  A text is a sequence of        *)
(* one-character strings, so that strip, lower, isdigit and int are        *)
(* computed character by character.                                        *)

\* Largest page index explored and largest number of entries on a page.
MaxPage == 3

MaxEntries == 2

DECIMALS == <<"0", "1", "2", "3", "4", "5", "6", "7", "8", "9">>

\* A character that str.isdigit accepts and int rejects.
SUPERSCRIPT_TWO == "sup2"

WHITESPACE == {" "}

UPPER == <<"E", "I", "N", "P", "Q", "R", "T", "U", "V", "X">>

LOWER == <<"e", "i", "n", "p", "q", "r", "t", "u", "v", "x">>

IsDecimal(c) == \E d \in 1..Len(DECIMALS) : DECIMALS[d] = c

DecimalValue(c) == (CHOOSE d \in 1..Len(DECIMALS) : DECIMALS[d] = c) - 1

RECURSIVE LStrip(_)
LStrip(s) == IF s # << >> /\ Head(s) \in WHITESPACE THEN LStrip(Tail(s)) ELSE s

RECURSIVE RStrip(_)
RStrip(s) ==
    IF s # << >> /\ s[Len(s)] \in WHITESPACE
    THEN RStrip(SubSeq(s, 1, Len(s) - 1))
    ELSE s

\* str.strip()
Strip(s) == RStrip(LStrip(s))

LowerChar(c) ==
    IF \E u \in 1..Len(UPPER) : UPPER[u] = c
    THEN LOWER[CHOOSE u \in 1..Len(UPPER) : UPPER[u] = c]
    ELSE c

\* str.lower()
Lower(s) == [i \in 1..Len(s) |-> LowerChar(s[i])]

\* str.isdigit(): at least one character, and every character a digit.
IsDigit(s) ==
    /\ Len(s) > 0
    /\ \A i \in 1..Len(s) : IsDecimal(s[i]) \/ s[i] = SUPERSCRIPT_TWO

\* int(s) has a value when every character is a decimal digit.
IntParses(s) == Len(s) > 0 /\ \A i \in 1..Len(s) : IsDecimal(s[i])

RECURSIVE Int10(_)
Int10(s) ==
    IF s = << >> THEN 0
    ELSE 10 * Int10(SubSeq(s, 1, Len(s) - 1)) + DecimalValue(s[Len(s)])

\* The decimal text of a number below 10.
Numeral(d) == <<DECIMALS[d + 1]>>

NEXT_WORDS == {<<"n">>, <<"n", "e", "x", "t">>}

PREV_WORDS == {<<"p">>, <<"p", "r", "e", "v">>}

QUIT_WORDS == {<<"q">>, <<"q", "u", "i", "t">>}

\* What the user may type at the prompt.
Typed ==
    {Numeral(d) : d \in 0..(MaxEntries + 1)}
        \cup {<<"0", "1">>, <<" ", "2", " ">>, <<"-", "1">>, <<SUPERSCRIPT_TWO>>}
        \cup NEXT_WORDS \cup PREV_WORDS \cup QUIT_WORDS
        \cup {<<"N">>, <<" ", "p", " ">>, <<"P", "R", "E", "V">>, <<"Q">>}
        \cup {<<"x">>, << >>}

\* An entry of the catalog, and an entry that lacks its id.
Neo(id) == [name |-> "neo", neo_reference_id |-> id]

Nameless == [name |-> "neo"]

Ids == {"2000433", "2001036"}

RECURSIVE SeqsUpTo(_, _)
SeqsUpTo(S, len) ==
    IF len = 0 THEN {<< >>}
    ELSE LET shorter == SeqsUpTo(S, len - 1)
         IN  shorter \cup {Append(s, x) : s \in {q \in shorter : Len(q) = len - 1}, x \in S}

\* What a request of the browse endpoint may come back with.
BrowseOutcomes ==
    {[status_code |-> c, json |-> FALSE, near_earth_objects |-> << >>] : c \in {200, 404, 503}}
        \cup {[status_code |-> 200, json |-> TRUE, near_earth_objects |-> l] :
                l \in SeqsUpTo({Neo(i) : i \in Ids} \cup {Nameless}, MaxEntries)}

Str(v) == [kind |-> "str", value |-> v]

Unbound == <<"(unbound)">>

BlankScreen == [drawn |-> FALSE, page |-> 0, lines |-> << >>]

BrowserInit ==
    /\ bpc = "idle"
    /\ page = 0
    /\ neos = << >>
    /\ screen = BlankScreen
    /\ cmd = Unbound
    /\ selected = None
    /\ berr = NoErr

Init ==
    /\ EngineInit
    /\ prev = NoPrev
    /\ HandlerInit
    /\ BrowserInit

\* The caller has the outcome; nothing of the call remains.
Discard ==
    /\ Done
    /\ pc' = "idle"
    /\ op' = "none"
    /\ args' = NoArgs
    /\ n' = 0
    /\ j' = 0
    /\ positions' = << >>
    /\ t' = 0
    /\ times' = << >>
    /\ M_t' = 0
    /\ E' = 0
    /\ k' = 0
    /\ delta' = 0
    /\ result' = NoResult
    /\ err' = NoErr

CallPropagate ==
    /\ Free
    /\ hpc = "idle"
    /\ \E a \in PropArgs : StartPropagate(a)
    /\ UNCHANGED <<prev, handler, browser>>

CallEstimate ==
    /\ Free
    /\ hpc = "idle"
    /\ \E a \in EstArgs : EstimateImpact(a)
    /\ UNCHANGED <<prev, handler, browser>>

Loop ==
    /\ LoopStep
    /\ UNCHANGED <<prev, handler, browser>>

Newton ==
    /\ NewtonStep
    /\ UNCHANGED <<prev, handler, browser>>

PlaceSample ==
    /\ Place
    /\ UNCHANGED <<prev, handler, browser>>

Release ==
    /\ hpc = "idle"
    /\ Discard
    /\ UNCHANGED <<prev, handler, browser>>

Next == CallPropagate \/ CallEstimate \/ Loop \/ Newton \/ PlaceSample \/ Release

Spec == Init /\ [][Next]_vars

----------------------------------------------------------------------------
(* Sequences of calls, observed: an observer keeps one completed call of   *)
(* its choice (function, arguments, outcome) and notes whether another     *)
(* call has completed since.                                               *)

PairPropArgs ==
    PropArgsOver({0, 100}, {0, 50}, {<<30, 40, 50>>}, {-90, 200}, 0..MaxSteps, {365})

\* Diameters -2 and 2 m, density 3 kg/m^3, crater coefficient 1000.
PairEstArgs ==
    {a \in EstArgs : /\ a.diameter_m \in {-200, 200}
                     /\ a.density = 300
                     /\ a.impact_angle_deg \in {0, 45, 90}
                     /\ a.crater_coeff = 100000}

Outcome == [op |-> op, args |-> args, pc |-> pc, result |-> result, err |-> err,
            between |-> FALSE]

PairCallPropagate ==
    /\ Free
    /\ hpc = "idle"
    /\ \E a \in PairPropArgs : StartPropagate(a)
    /\ UNCHANGED <<prev, handler, browser>>

\* The call is over and the observer keeps it.
Keep ==
    /\ hpc = "idle"
    /\ Discard
    /\ prev' = Outcome
    /\ UNCHANGED <<handler, browser>>

\* The call is over and the observer keeps the one it has.
Pass ==
    /\ hpc = "idle"
    /\ Discard
    /\ prev' = IF prev.op = "none" THEN prev ELSE [prev EXCEPT !.between = TRUE]
    /\ UNCHANGED <<handler, browser>>

PairCallEstimate ==
    /\ Free
    /\ hpc = "idle"
    /\ \E a \in PairEstArgs : EstimateImpact(a)
    /\ UNCHANGED <<prev, handler, browser>>

PairNext ==
    PairCallPropagate \/ PairCallEstimate \/ Loop \/ Newton \/ PlaceSample \/ Keep \/ Pass

PairSpec == Init /\ [][PairNext]_vars

----------------------------------------------------------------------------
(* api_simulate                                                            *)
(*                                                                         *)
(* A request is its body: not JSON, the JSON null, or a JSON object with   *)
(* or without the keys "orbit" and "neo_id".  The objects of the model     *)
(* carry every optional key; numeric_ok tells whether float() and int()    *)
(* accept their values.  An exception that leaves the handler is answered  *)
(* by Flask with status 500.                                               *)

Elements(a, e, m) ==
    [complete |-> TRUE, semi_major_axis_au |-> a, eccentricity |-> e,
     inclination_deg |-> 30, ascending_node_longitude_deg |-> 40,
     argument_of_periapsis_deg |-> 50, mean_anomaly_deg |-> m]

\* An "orbit" object that lacks some of the six keys.
Incomplete == [complete |-> FALSE]

\* The elements of a record without orbital_data: every default, 0.0.
DefaultElements ==
    [complete |-> TRUE, semi_major_axis_au |-> 0, eccentricity |-> 0,
     inclination_deg |-> 0, ascending_node_longitude_deg |-> 0,
     argument_of_periapsis_deg |-> 0, mean_anomaly_deg |-> 0]

SimElements == {Elements(a, e, 200) : a \in {0, 100}, e \in {0, 50, 150}}

Bodies ==
    {[json |-> "object", has_orbit |-> ho, has_neo_id |-> hn, orbit |-> o,
      numeric_ok |-> ok, simulation_steps |-> st, timespan_days |-> 365,
      projectile_diameter_m |-> d, projectile_density |-> 300,
      impact_velocity_km_s |-> 1, impact_angle_deg |-> 90,
      crater_coefficient |-> 100000] :
        ho \in BOOLEAN, hn \in BOOLEAN, o \in SimElements \cup {Incomplete},
        ok \in BOOLEAN, st \in {1, MaxSteps}, d \in {-200, 200}}

\* Bodies without "orbit" differ only in what the handler reads.
Requests ==
    {[json |-> "invalid"], [json |-> "null"]}
        \cup {b \in Bodies : b.has_orbit \/ b.orbit = Incomplete}

\* fetch_neo_data: it raises, or returns a record whose orbital data float()
\* rejects, or a record with orbital data (possibly none: the defaults).
FetchOutcomes ==
    {[ok |-> FALSE], [ok |-> TRUE, numeric |-> FALSE]}
        \cup {[ok |-> TRUE, numeric |-> TRUE, orbital_data |-> o] :
                  o \in SimElements \cup {DefaultElements}}

\* return jsonify(...), status: the handler is over.
Reply(status, body) ==
    /\ resp' = [status |-> status, body |-> body]
    /\ hpc' = "done"

ErrorBody(msg) == [error |-> msg]

Receive ==
    /\ hpc = "idle"
    /\ Free
    /\ \E r \in Requests : req' = r
    /\ hpc' = "parse"
    /\ orbit_data' = None
    /\ hpos' = << >>
    /\ calls' = NoCalls
    /\ resp' = NoResponse
    /\ UNCHANGED <<engine, prev, browser>>

\* Lines 329-332: payload = request.get_json(force=True)
ParseJson ==
    /\ hpc = "parse"
    /\ IF req.json = "invalid"
       THEN Reply(400, ErrorBody("Invalid JSON")) /\ UNCHANGED <<req, orbit_data, hpos, calls>>
       ELSE hpc' = "orbit" /\ UNCHANGED <<req, orbit_data, hpos, calls, resp>>
    /\ UNCHANGED <<engine, prev, browser>>

\* The branches in the other order: the lookup tried before the "orbit" key.
OrbitSourceLookupFirst(r) ==
    IF r.has_neo_id THEN "neo_id" ELSE IF r.has_orbit THEN "orbit" ELSE "none"

\* if "orbit" in payload: ... elif "neo_id" in payload: ... else: ...
OrbitSource(r) ==
    IF r.has_orbit THEN "orbit" ELSE IF r.has_neo_id THEN "neo_id" ELSE "none"

\* Lines 335-353.  `"orbit" in payload` raises TypeError on None.
DetermineOrbit ==
    /\ hpc = "orbit"
    /\ IF req.json = "null"
       THEN Reply(500, ErrorBody("TypeError")) /\ UNCHANGED <<req, orbit_data, hpos, calls>>
       ELSE IF OrbitSource(req) = "orbit"
       THEN /\ orbit_data' = req.orbit
            /\ hpc' = "params"
            /\ UNCHANGED <<req, hpos, calls, resp>>
       ELSE IF OrbitSource(req) = "neo_id"
       THEN \E f \in FetchOutcomes :
                /\ calls' = [calls EXCEPT !.fetch = @ + 1]
                /\ IF f.ok /\ f.numeric
                   THEN /\ orbit_data' = f.orbital_data
                        /\ hpc' = "params"
                        /\ UNCHANGED <<req, hpos, resp>>
                   ELSE /\ Reply(500, ErrorBody("lookup failed"))
                        /\ UNCHANGED <<req, orbit_data, hpos>>
       ELSE Reply(400, ErrorBody("No orbit or neo_id provided"))
            /\ UNCHANGED <<req, orbit_data, hpos, calls>>
    /\ UNCHANGED <<engine, prev, browser>>

\* The arguments of the call at lines 363-372.
SimPropArgs(o, r) ==
    [fn |-> "kepler_to_cartesian", a |-> o.semi_major_axis_au, e |-> o.eccentricity,
     i_deg |-> o.inclination_deg, omega_deg |-> o.ascending_node_longitude_deg,
     w_deg |-> o.argument_of_periapsis_deg, M_deg |-> o.mean_anomaly_deg,
     steps |-> r.simulation_steps, timespan_days |-> r.timespan_days]

\* The arguments of the call at lines 375-381, with
\* impact_velocity_m_s = impact_velocity_km_s * 1000.0.
SimEstArgs(r) ==
    [fn |-> "compute_impact_effects", diameter_m |-> r.projectile_diameter_m,
     density |-> r.projectile_density,
     velocity_m_per_s |-> r.impact_velocity_km_s * 1000,
     impact_angle_deg |-> r.impact_angle_deg, crater_coeff |-> r.crater_coefficient]

\* Lines 356-372: the physical parameters, then the call of the propagator.
\* float() and int() raise on a value that is no number, and
\* orbit_data[...] raises KeyError on a missing key.
InvokePropagator ==
    /\ hpc = "params"
    /\ Free
    /\ IF ~req.numeric_ok \/ ~orbit_data.complete
       THEN /\ Reply(500, ErrorBody(IF req.numeric_ok THEN "KeyError" ELSE "ValueError"))
            /\ UNCHANGED <<req, orbit_data, hpos, calls, engine>>
       ELSE /\ StartPropagate(SimPropArgs(orbit_data, req))
            /\ calls' = [calls EXCEPT !.propagate = @ + 1]
            /\ hpc' = "propagating"
            /\ UNCHANGED <<req, orbit_data, hpos, resp>>
    /\ UNCHANGED <<prev, browser>>

\* The propagator is over: its exception leaves the handler, or its value is
\* bound to "positions" (line 363).
AfterPropagate ==
    /\ hpc = "propagating"
    /\ Discard
    /\ IF pc = "raised"
       THEN Reply(500, ErrorBody(err.exc)) /\ UNCHANGED <<req, orbit_data, hpos, calls>>
       ELSE /\ hpos' = result.val
            /\ hpc' = "estimate"
            /\ UNCHANGED <<req, orbit_data, calls, resp>>
    /\ UNCHANGED <<prev, browser>>

\* Lines 375-381: the call of the estimator.
InvokeEstimator ==
    /\ hpc = "estimate"
    /\ Free
    /\ EstimateImpact(SimEstArgs(req))
    /\ calls' = [calls EXCEPT !.estimate = @ + 1]
    /\ hpc' = "estimating"
    /\ UNCHANGED <<req, orbit_data, hpos, resp, prev, browser>>

\* Lines 383-386: both results in one JSON object.  jsonify raises TypeError
\* on a complex number.
Respond ==
    /\ hpc = "estimating"
    /\ Discard
    /\ IF pc = "raised"
       THEN Reply(500, ErrorBody(err.exc))
       ELSE IF result.val.crater_diameter_km.complex
       THEN Reply(500, ErrorBody("TypeError"))
       ELSE Reply(200, [orbit_positions |-> hpos, impact_results |-> result.val])
    /\ UNCHANGED <<req, orbit_data, hpos, calls, prev, browser>>

\* The response is sent; the next request starts afresh.
Close ==
    /\ hpc = "done"
    /\ hpc' = "idle"
    /\ req' = NoRequest
    /\ orbit_data' = None
    /\ hpos' = << >>
    /\ calls' = NoCalls
    /\ resp' = NoResponse
    /\ UNCHANGED <<engine, prev, browser>>

SimNext ==
    \/ Receive \/ ParseJson \/ DetermineOrbit \/ InvokePropagator
    \/ Loop \/ Newton \/ PlaceSample
    \/ AfterPropagate \/ InvokeEstimator \/ Respond \/ Close

SimSpec == Init /\ [][SimNext]_vars

----------------------------------------------------------------------------
(* browse_catalog, one step per request of a page and one per command.     *)

\* Line 56: the function is entered.
BrowseCatalog ==
    /\ bpc = "idle"
    /\ bpc' = "fetch"
    /\ page' = 0
    /\ UNCHANGED <<neos, screen, cmd, selected, berr>>
    /\ UNCHANGED <<engine, prev, handler>>

BrowseReturn(v) == bpc' = "returned" /\ selected' = v /\ berr' = NoErr

BrowseRaise(exc, line) == bpc' = "raised" /\ berr' = Raised(exc, line) /\ selected' = None

\* Lines 70-72: the header and one line per entry, numbered from 1.
Printed(p, l) ==
    [drawn |-> TRUE, page |-> p,
     lines |-> [i \in 1..Len(l) |-> [idx |-> i, id |-> l[i].neo_reference_id]]]

\* The entries printed before one without an id stops the listing.
RECURSIVE WithIds(_)
WithIds(l) ==
    IF l = << >> \/ "neo_reference_id" \notin DOMAIN Head(l) THEN << >>
    ELSE <<Head(l)>> \o WithIds(Tail(l))

\* Lines 60-72: the page is requested and, when it has entries, printed.
FetchPage ==
    /\ bpc = "fetch"
    /\ \E r \in BrowseOutcomes :
        IF r.status_code # 200
        THEN BrowseReturn(None) /\ UNCHANGED <<neos, screen>>
        ELSE IF ~r.json
        THEN BrowseRaise("JSONDecodeError", 64) /\ UNCHANGED <<neos, screen>>
        ELSE /\ neos' = r.near_earth_objects
             /\ IF r.near_earth_objects = << >>
                THEN BrowseReturn(None) /\ UNCHANGED screen
                ELSE IF \E i \in 1..Len(r.near_earth_objects) :
                            "neo_reference_id" \notin DOMAIN r.near_earth_objects[i]
                THEN /\ BrowseRaise("KeyError", 72)
                     /\ screen' = Printed(page, WithIds(r.near_earth_objects))
                ELSE /\ screen' = Printed(page, r.near_earth_objects)
                     /\ bpc' = "prompt"
                     /\ UNCHANGED <<selected, berr>>
    /\ UNCHANGED <<page, cmd>>
    /\ UNCHANGED <<engine, prev, handler>>

\* Line 80 without its guard on the page index.
PreviousPageUnguarded(c, p) == c \in PREV_WORDS

\* Line 80
PreviousPage(c, p) == c \in PREV_WORDS /\ p > 0

\* Line 76
InRange(sel, l) == 1 <= sel /\ sel <= Len(l)

\* Lines 73-83: a command is read and acted upon.
Command ==
    /\ bpc = "prompt"
    /\ \E typed \in Typed :
        LET c == Lower(Strip(typed))
        IN  /\ c \in NEXT_WORDS => page < MaxPage
            /\ cmd' = c
            /\ IF IsDigit(c)
               THEN IF ~IntParses(c)
                    THEN BrowseRaise("ValueError", 75) /\ UNCHANGED page
                    ELSE IF InRange(Int10(c), neos)
                    THEN /\ BrowseReturn(Str(neos[Int10(c)].neo_reference_id))
                         /\ UNCHANGED page
                    ELSE bpc' = "fetch" /\ UNCHANGED <<page, selected, berr>>
               ELSE IF c \in NEXT_WORDS
               THEN bpc' = "fetch" /\ page' = page + 1 /\ UNCHANGED <<selected, berr>>
               ELSE IF PreviousPage(c, page)
               THEN bpc' = "fetch" /\ page' = page - 1 /\ UNCHANGED <<selected, berr>>
               ELSE IF c \in QUIT_WORDS
               THEN BrowseReturn(None) /\ UNCHANGED page
               ELSE bpc' = "fetch" /\ UNCHANGED <<page, selected, berr>>
    /\ UNCHANGED <<neos, screen>>
    /\ UNCHANGED <<engine, prev, handler>>

\* Lines 91-93: the caller has the outcome; the frame of the call is gone.
Leave ==
    /\ bpc \in {"returned", "raised"}
    /\ bpc' = "idle"
    /\ page' = 0
    /\ neos' = << >>
    /\ screen' = BlankScreen
    /\ cmd' = Unbound
    /\ selected' = None
    /\ berr' = NoErr
    /\ UNCHANGED <<engine, prev, handler>>

BrowseNext == BrowseCatalog \/ FetchPage \/ Command \/ Leave

BrowseSpec == Init /\ [][BrowseNext]_vars

----------------------------------------------------------------------------
(* Properties of kepler_to_cartesian and _solve_keplers_equation           *)

\* The domain of the propagator: steps >= 2, a > 0, 0 <= e < 1.
ValidPropArgs(a) == a.steps >= 2 /\ a.a > 0 /\ a.e >= 0 /\ a.e < SCALE

\* C1: a call of the propagator with steps < 2, a <= 0 or e outside [0,1)
\* fails before any sample is computed: it is never in its loop, never in
\* the solver, and never returns a trajectory.
C1_InvalidOrbitRejected ==
    (op = "propagate" /\ ~ValidPropArgs(args)) => pc = "raised"

\* C3: with steps >= 2 the propagator returns exactly `steps` positions, the
\* position at index j computed for the elapsed time
\* (j / (steps - 1)) * timespan_days * 86400 (to the nearest second): 0 at
\* index 0, the whole time span at index steps - 1, strictly increasing when
\* the time span is positive.
C3_TrajectoryShape ==
    (op = "propagate" /\ args.steps >= 2) =>
        /\ Len(positions) = Len(times)
        /\ Len(positions) <= args.steps
        /\ \A idx \in 1..Len(times) :
               /\ 2 * Abs(times[idx] * (args.steps - 1)
                          - (idx - 1) * args.timespan_days * 86400) <= args.steps - 1
               /\ idx = 1 => times[idx] = 0
               /\ idx = args.steps => times[idx] = args.timespan_days * 86400
               /\ (idx > 1 /\ args.timespan_days > 0) => times[idx - 1] < times[idx]
        /\ pc = "returned" =>
               /\ result.kind = "positions"
               /\ result.val = positions
               /\ Len(result.val) = args.steps

C3_Witness ==
    /\ op = "propagate"
    /\ pc = "returned"
    /\ args.steps = MaxSteps
    /\ args.timespan_days = 365
    /\ Len(result.val) = MaxSteps
    /\ times[MaxSteps] = 365 * 86400

\* C4: for every sample, whatever the epoch mean anomaly, the mean anomaly
\* handed to the solver lies in [0, 2*pi).
C4_MeanAnomalyNormalised ==
    (op = "propagate" /\ ValidPropArgs(args) /\ pc = "solve") =>
        (M_t >= 0 /\ M_t < TWO_PI)

\* C5: for e in [0,1) the solver makes at most 50 Newton updates: it is still
\* iterating only while no update has met the tolerance and fewer than 50
\* were made, it returns at the first update that meets the tolerance or
\* else with the value after the 50th, and it never raises.
C5_SolverBounded ==
    (op = "propagate" /\ args.e >= 0 /\ args.e < SCALE) =>
        /\ k <= 50
        /\ pc = "solve" => (k < 50 /\ (k > 0 => Abs(delta) >= TOL))
        /\ pc = "solve" => ENABLED NewtonStep
        /\ pc = "place" => (k >= 1 /\ (Abs(delta) < TOL \/ k = 50))
        /\ pc = "raised" => err.line # 182

C5_Witness ==
    /\ op = "propagate"
    /\ args.e >= 0 /\ args.e < SCALE
    /\ pc = "place"
    /\ k = 50
    /\ Abs(delta) >= TOL

\* C6: with e = 0 the solver returns E equal to M after exactly one Newton
\* update, whose delta is 0.
C6_CircularFixedPoint ==
    (op = "propagate" /\ args.e = 0) =>
        /\ pc = "solve" => (k = 0 /\ E = M_t)
        /\ pc = "place" => (k = 1 /\ delta = 0 /\ E = M_t)

C6_Witness ==
    /\ op = "propagate"
    /\ args.e = 0
    /\ pc = "place"
    /\ k = 1
    /\ E = M_t
    /\ M_t > PI

----------------------------------------------------------------------------
(* Properties of compute_impact_effects                                    *)

\* C2: a call of the estimator with diameter <= 0 or density <= 0 fails:
\* it never returns an ImpactEffects result.
C2_InvalidImpactorRejected ==
    (op = "estimate" /\ (args.diameter_m <= 0 \/ args.density <= 0)) => pc = "raised"

\* C7: the estimator never raises (no log10 domain error); whenever the
\* kinetic energy is not positive the seismic magnitude is 0; and with an
\* impact angle of 0 the kinetic energy, the crater diameter and the seismic
\* magnitude are all 0.
C7_GrazingImpact ==
    op = "estimate" =>
        /\ pc = "returned"
        /\ result.val.kinetic_energy_joules <= 0 => result.val.seismic_magnitude = 0
        /\ args.impact_angle_deg = 0 =>
               /\ result.val.kinetic_energy_joules = 0
               /\ result.val.crater_diameter_km = [complex |-> FALSE, val |-> 0]
               /\ result.val.seismic_magnitude = 0

C7_Witness ==
    /\ op = "estimate"
    /\ pc = "returned"
    /\ args.impact_angle_deg = 0
    /\ args.diameter_m > 0
    /\ args.density > 0
    /\ args.velocity_m_per_s > 0
    /\ result.val.seismic_magnitude = 0

\* The earlier call kept by the observer and the call that has just returned
\* are estimates at vertical incidence of the same impactor (diameter and
\* density positive), the later one at twice the velocity.
DoubledVelocity ==
    /\ op = "estimate"
    /\ args.diameter_m > 0
    /\ args.density > 0
    /\ pc = "returned"
    /\ prev.op = "estimate"
    /\ prev.pc = "returned"
    /\ args.impact_angle_deg = 90
    /\ prev.args.impact_angle_deg = 90
    /\ args.diameter_m = prev.args.diameter_m
    /\ args.density = prev.args.density
    /\ args.velocity_m_per_s = 2 * prev.args.velocity_m_per_s

SquareOfEarlier ==
    LET v == VVertical(prev.args.velocity_m_per_s, prev.args.impact_angle_deg)
    IN FMul(v, v)

----------------------------------------------------------------------------
(* Determinism                                                             *)

\* The call that has just completed has the function and the arguments of
\* the earlier call kept by the observer.
SameCallAgain == Done /\ prev.op = op /\ prev.args = args

\* C9: two calls of the same function with identical arguments have
\* identical outcomes (the same value returned or the same exception),
\* whatever calls completed before or between them, and a call leaves its
\* arguments as they were passed.
C9_Deterministic ==
    /\ SameCallAgain => (prev.pc = pc /\ prev.result = result /\ prev.err = err)
    /\ (op = "propagate" /\ Done) => args \in PairPropArgs
    /\ (op = "estimate" /\ Done) => args \in PairEstArgs

C9_Witness ==
    /\ SameCallAgain
    /\ prev.between
    /\ op = "propagate"
    /\ pc = "returned"
    /\ Len(result.val) = MaxSteps
    /\ prev.result = result

----------------------------------------------------------------------------
(* Properties of api_simulate                                              *)

\* C10: while serving a request the propagator and the estimator are each
\* invoked at most once and only once orbital elements have been obtained;
\* a request with the "orbit" key uses it and makes no remote lookup; a
\* request that yields no orbital elements is answered 400 or 500 with
\* neither component invoked; and the answer 200 carries the value returned
\* by the propagator and the value returned by the estimator.
C10_SimulateFlow ==
    /\ calls.propagate <= 1 /\ calls.estimate <= 1
    /\ (hpc # "idle" /\ pc # "idle") => hpc \in {"propagating", "estimating"}
    /\ (calls.propagate > 0 \/ calls.estimate > 0) => orbit_data # None
    /\ (hpc \notin {"idle", "parse"} /\ req.json = "object" /\ req.has_orbit) =>
           /\ calls.fetch = 0
           /\ hpc # "orbit" => orbit_data = req.orbit
    /\ (hpc = "done" /\ orbit_data = None) =>
           /\ resp.status \in {400, 500}
           /\ calls.propagate = 0 /\ calls.estimate = 0
    /\ (hpc = "done" /\ resp.status = 200) =>
           /\ calls.propagate = 1 /\ calls.estimate = 1
           /\ resp.body.orbit_positions = hpos
           /\ resp.body.impact_results.kinetic_energy_joules =
                  KineticEnergy(Mass(req.projectile_diameter_m, req.projectile_density),
                                req.impact_velocity_km_s * 1000)

C10_Witness ==
    /\ hpc = "done"
    /\ resp.status = 200
    /\ req.has_neo_id /\ ~req.has_orbit
    /\ calls = [propagate |-> 1, estimate |-> 1, fetch |-> 1]
    /\ Len(resp.body.orbit_positions) = MaxSteps
    /\ resp.body.impact_results.kinetic_energy_joules > 0

----------------------------------------------------------------------------
(* Properties of browse_catalog                                            *)

\* The page index a command leads to from page index p.
PageAfter(c, p) ==
    IF c \in NEXT_WORDS THEN p + 1
    ELSE IF c \in PREV_WORDS /\ p > 0 THEN p - 1
    ELSE p

\* While the function runs the index is not negative, and it is 0 until
\* the first command is read.
PageNotNegative ==
    bpc # "idle" => (page >= 0 /\ (cmd = Unbound => page = 0))

\* A string is returned only for a number within the printed listing, and
\* it is the id printed at that number, on the page that is on the screen.
SelectionFromScreen ==
    (bpc = "returned" /\ selected # None) =>
        /\ IsDigit(cmd) /\ IntParses(cmd)
        /\ screen.drawn /\ screen.page = page
        /\ 1 <= Int10(cmd) /\ Int10(cmd) <= Len(screen.lines)
        /\ screen.lines[Int10(cmd)].idx = Int10(cmd)
        /\ selected = Str(screen.lines[Int10(cmd)].id)

\* Reading a command moves the index as PageAfter says; requesting and
\* printing a page does not move it.
PageMoves ==
    /\ bpc = "prompt" => page' = PageAfter(cmd', page)
    /\ bpc = "fetch" => page' = page

\* C11: in browse_catalog the page index is never negative.  It starts at
\* 0; n/next increases it by 1, p/prev decreases it by 1 only when it is
\* > 0, and every other command, an out-of-range number included, leaves
\* it unchanged.  An id is returned only for a number sel with
\* 1 <= sel <= the number of entries of the page on the screen, and it is
\* the id of the entry at position sel of that page.
C11_PageIndex ==
    /\ [](PageNotNegative /\ SelectionFromScreen)
    /\ [][PageMoves]_vars

\* p was typed while page 0 was on the screen, and the index is still 0.
C11_Witness ==
    /\ bpc = "fetch"
    /\ cmd \in PREV_WORDS
    /\ screen.drawn /\ screen.page = 0
    /\ page = 0

============================================================================
